---- MODULE Spec2Model ----
(***************************************************************************)
(* Conversation store, eligibility recall and reply dispatcher of the      *)
(* Twitter agent (pkg/memory TweetStore, pkg/actions TweetResponder and    *)
(* MentionsHandler).                                                       *)
(*                                                                         *)
(* Tweet ids and conversation ids are naturals; 0 stands for the empty     *)
(* string / SQL NULL.  Timestamps are naturals; 0 is the zero time.        *)
(* Audit columns (processed_at, last_updated, process_count) and the text  *)
(* columns are not modelled.                                               *)
(***************************************************************************)
EXTENDS Integers, Sequences, FiniteSets, TLC

\* ------------------------------------------------------------------ bounds
MaxTweets == 2
MaxReplies == 2
MaxUnread == 2
MaxBatch == 2
MaxResults == 2
MaxThreads == 5
MaxBatchSize == 3
MaxRows == 3
MaxCreated == 2
MaxTasks == 2
MaxTaskRetries == 2

\* --------------------------------------------------------------- constants
NoId == 0
NoUser == ""
AgentId == "agent"
PendingId == "pending"
UserId == "user"
ZeroTime == 0

\* DefaultBatchConfig().MaxRetries
MaxRetries == 3

CategoryMention == "mention"
CategoryReply == "reply"
CategoryQuote == "quote"
CategoryRetweet == "retweet"
CategoryConversation == "conversation"

TweetIds == 1..MaxTweets
ReplyIds == (MaxTweets + 1)..(MaxTweets + MaxReplies)
AllIds == TweetIds \cup ReplyIds
ConvIds == {NoId, 1}

\* referenced_tweets lists offered by the transport; <<>> is the nil list
RefLists ==
  {<<>>, <<[type |-> "quoted", id |-> NoId]>>}
    \cup {<<[type |-> "replied_to", id |-> p]>> : p \in AllIds}

\* twitter.Tweet as delivered by the mentions timeline
InTweets ==
  [id : TweetIds, conversationId : ConvIds, authorId : {UserId}, refs : RefLists]

\* what the platform can hold: tweet 1 is no reply, a later tweet that is a
\* reply answers an earlier tweet or the agent's first reply
Timelines ==
  {tl \in [TweetIds -> InTweets] :
     \A id \in TweetIds :
       /\ tl[id].id = id
       /\ \A k \in 1..Len(tl[id].refs) :
            tl[id].refs[k].type = "replied_to"
              => /\ id > 1
                 /\ tl[id].refs[k].id < id \/ tl[id].refs[k].id = MaxTweets + 1}

VARIABLES
  timeline,   \* the tweets the platform serves on the mentions timeline, by id
  ingest,     \* MentionsHandler: options.MaxResults, the number of tweets the
              \* platform holds, the tweets of the fetched response still to
              \* process, the ids whose SaveTweet error was logged last
  ctxDone,    \* the context handed to Execute and CheckMentions is cancelled
  loops,      \* Agent.actions: action name -> position of its Execute loop,
              \* its stop channel, whether Stop was called, the last cycle's error
  scraper,    \* Scraper: status counters, tasks, task and result channels
  selection,  \* one call of handleSingleReply on a thread: the rows of the
              \* conversation, thread.Tweets after the sort, the walk's target,
              \* the tweets written into the conversation context
  batchRun,   \* one call of ProcessTweetsInBatches on a recall result of a given
              \* length: BatchSize, the loop's i, end and position, what it did
  lastErr,    \* what the last call of handleSingleReply returned
  store,      \* table "tweets": tweet id -> row
  envUserID,  \* environment variable TWITTER_USER_ID
  botID,      \* TweetStore.botID
  pc,         \* position of the dispatch cycle
  mode,       \* which cycle runs: ProcessTweetsInBatches or ProcessTweetsNeedingReply
  threads,    \* threads of the cycle's recall still to handle, the current one first
  batchLeft,  \* threads of the current batch still to handle, the current one included
  batchSize,  \* BatchProcessConfig.BatchSize of the running cycle
  cur,        \* handleSingleReply locals: target, posted reply id
  nextReply,  \* next id the platform assigns to a posted reply
  tokens,     \* rate.Limiter bucket (burst 1)
  permit,     \* a limiter permit was taken for the thread being handled
  rateLimited,\* a post failed with a rate-limit error and no pause followed yet
  posted,     \* targets for which an earlier handleSingleReply posted a reply
  repliedConvs, \* conversation ids of the threads the running cycle posted a reply in
  answered    \* originals for which SaveAgentReply committed

vars ==
  <<timeline, ingest, loops, scraper, batchRun, selection, ctxDone, store, envUserID, botID, pc, mode, threads, batchLeft, batchSize,
    cur, nextReply, tokens, permit, rateLimited, posted, repliedConvs, answered,
    lastErr>>

cycleVars ==
  <<pc, mode, threads, batchLeft, batchSize, cur, nextReply, tokens, permit,
    rateLimited, posted, repliedConvs, lastErr>>

Ids(s) == DOMAIN s

Max(S) == CHOOSE x \in S : \A y \in S : y <= x

\* ----------------------------------------------------------- the classifier
HasRef(refs, type) == \E k \in 1..Len(refs) : refs[k].type = type

RECURSIVE FirstQuoteOrRetweet(_)
FirstQuoteOrRetweet(refs) ==
  IF refs = <<>> THEN CategoryMention
  ELSE IF Head(refs).type = "quoted" THEN CategoryQuote
  ELSE IF Head(refs).type = "retweeted" THEN CategoryRetweet
  ELSE FirstQuoteOrRetweet(Tail(refs))

DetermineTweetCategory(tweet) ==
  IF tweet.conversationId # NoId /\ HasRef(tweet.refs, "replied_to")
  THEN CategoryConversation
  ELSE FirstQuoteOrRetweet(tweet.refs)

\* ------------------------------------------------------------ store: writes
\* CURRENT_TIMESTAMP / time.Now(): later than every timestamp stored so far
Now(s) ==
  Max({ZeroTime} \cup {s[i].created : i \in Ids(s)}
                 \cup {s[i].lastReplyTime : i \in Ids(s)}) + 1

\* first replied_to entry of a referenced_tweets list (the loop breaks on it)
RECURSIVE FirstRepliedTo(_)
FirstRepliedTo(refs) ==
  IF refs = <<>> THEN NoId
  ELSE IF Head(refs).type = "replied_to" THEN Head(refs).id
  ELSE FirstRepliedTo(Tail(refs))

\* SELECT COUNT(*) WHERE conversation_id = ? AND is_participating; the error
\* of the query is ignored and leaves the count at 0
ParticipatingCount(s, tweet, countOk) ==
  IF tweet.conversationId # NoId /\ countOk
  THEN Cardinality({i \in Ids(s) : s[i].conv = tweet.conversationId /\ s[i].part})
  ELSE 0

\* UPDATE tweets SET unread_replies = unread_replies + 1, needs_reply = TRUE
\* WHERE id = parent
UpdateParent(s, parent) ==
  [i \in Ids(s) |->
     IF i = parent
     THEN [s[i] EXCEPT !.unread = @ + 1, !.needs = TRUE]
     ELSE s[i]]

\* UPDATE tweets SET is_participating = TRUE
\* WHERE conversation_id = ? AND id != parent
MarkConversationExcept(s, conv, parent) ==
  [i \in Ids(s) |->
     IF s[i].conv = conv /\ i # parent
     THEN [s[i] EXCEPT !.part = TRUE]
     ELSE s[i]]

\* the "Handle replies specifically" block of SaveTweet; neither statement
\* is in a transaction and neither error stops the function
HandleReplies(s, tweet, parentOk, convOk) ==
  LET parent == FirstRepliedTo(tweet.refs)
      s1 == IF parentOk THEN UpdateParent(s, parent) ELSE s
      s2 == IF convOk THEN MarkConversationExcept(s1, tweet.conversationId, parent) ELSE s1
  IN IF tweet.conversationId # NoId /\ parent # NoId THEN s2 ELSE s

\* is_participating column written by the upsert
UpsertParticipating(count) == count > 0

\* INSERT ... ON CONFLICT (id) DO UPDATE SET <the columns of tweetData>.
\* created_at, replied_to, unread_replies, last_reply_id and last_reply_time
\* are not in tweetData: a new row takes the column defaults, an existing row
\* keeps what it has.
Upsert(s, tweet, category, count, t) ==
  LET written ==
        [conv |-> tweet.conversationId, author |-> tweet.authorId, cat |-> category,
         needs |-> TRUE, part |-> UpsertParticipating(count)]
      row ==
        IF tweet.id \in Ids(s)
        THEN [s[tweet.id] EXCEPT !.conv = written.conv, !.author = written.author,
                                 !.cat = written.cat, !.needs = written.needs,
                                 !.part = written.part]
        ELSE [conv |-> written.conv, author |-> written.author, cat |-> written.cat,
              needs |-> written.needs, part |-> written.part,
              created |-> t, replied |-> FALSE, unread |-> 0,
              lastReplyId |-> NoId, lastReplyTime |-> ZeroTime]
  IN [i \in Ids(s) \cup {tweet.id} |-> IF i = tweet.id THEN row ELSE s[i]]

\* TweetStore.SaveTweet: the table after the call; upsertOk = FALSE is the
\* path that returns "failed to save tweet"
SaveTweetResult(s, tweet, category, t, countOk, parentOk, convOk, upsertOk) ==
  LET count == ParticipatingCount(s, tweet, countOk)
      s2 == HandleReplies(s, tweet, parentOk, convOk)
  IN IF upsertOk THEN Upsert(s2, tweet, category, count, t) ELSE s2

\* row of the agent's own reply written by SaveAgentReply
AgentReplyRow(conversationID, t) ==
  [conv |-> conversationID, author |-> botID, cat |-> CategoryReply,
   needs |-> FALSE, part |-> TRUE, created |-> t, replied |-> FALSE, unread |-> 0,
   lastReplyId |-> NoId, lastReplyTime |-> ZeroTime]

\* an update of the original that flips replied_to in place of setting it
MarkRepliedFlips(row, replyTweetID, t) ==
  [row EXCEPT !.replied = ~@, !.needs = FALSE, !.lastReplyId = replyTweetID,
              !.lastReplyTime = t, !.part = TRUE]

\* columns both SaveAgentReply and UpdateTweetAfterReply set on the original
MarkReplied(row, replyTweetID, t) ==
  [row EXCEPT !.replied = TRUE, !.needs = FALSE, !.lastReplyId = replyTweetID,
              !.lastReplyTime = t, !.part = TRUE]

\* the transaction of SaveAgentReply without its third statement
SaveAgentReplyResultNoConversation(s, originalTweetID, replyTweetID, conversationID, t) ==
  LET s1 == [i \in Ids(s) \cup {replyTweetID} |->
               IF i = replyTweetID THEN AgentReplyRow(conversationID, t) ELSE s[i]]
  IN [i \in Ids(s1) |->
        IF i = originalTweetID THEN MarkReplied(s1[i], replyTweetID, t) ELSE s1[i]]

\* TweetStore.SaveAgentReply, the committed transaction
SaveAgentReplyResult(s, originalTweetID, replyTweetID, conversationID, t) ==
  LET s1 == [i \in Ids(s) \cup {replyTweetID} |->
               IF i = replyTweetID THEN AgentReplyRow(conversationID, t) ELSE s[i]]
      s2 == [i \in Ids(s1) |->
               IF i = originalTweetID THEN MarkReplied(s1[i], replyTweetID, t) ELSE s1[i]]
  IN [i \in Ids(s2) |->
        IF s2[i].conv = conversationID THEN [s2[i] EXCEPT !.part = TRUE] ELSE s2[i]]

\* the INSERT of SaveAgentReply hits the primary key when the id is stored
SaveAgentReplyCanCommit(s, replyTweetID) == replyTweetID \notin Ids(s)

\* TweetStore.UpdateTweetAfterReply
UpdateTweetAfterReplyResult(s, tweetID, replyTweetID, t) ==
  [i \in Ids(s) |-> IF i = tweetID THEN MarkReplied(s[i], replyTweetID, t) ELSE s[i]]

\* ------------------------------------------------------------ store: recall
\* user id RecallTweetsNeedingReply filters with: the environment first, then
\* the stored bot id, then the API (which returns the account's id)
RecallUserID ==
  IF envUserID # NoUser THEN envUserID
  ELSE IF botID # NoUser THEN botID
  ELSE AgentId

\* last_bot_reply.bot_reply_time of the LEFT JOIN, COALESCEd to the epoch
BotReplyTime(s, conv, userID) ==
  LET mine == {i \in Ids(s) : s[i].author = userID /\ s[i].cat = CategoryReply
                              /\ s[i].conv = conv}
  IN IF mine = {} THEN ZeroTime ELSE Max({s[i].created : i \in mine})

\* SELECT DISTINCT conversation_id FROM tweets WHERE is_participating = TRUE
ParticipatingConversations(s) == {s[i].conv : i \in {j \in Ids(s) : s[j].part}}

\* WHERE clause of the recall query
NeedingReply(s, userID) ==
  {i \in Ids(s) :
     /\ s[i].author # userID
     /\ \/ s[i].cat = CategoryMention /\ ~s[i].replied
        \/ s[i].cat = CategoryConversation /\ ~s[i].replied
        \/ /\ s[i].conv \in ParticipatingConversations(s)
           /\ ~s[i].replied
           /\ \/ s[i].unread > 0
              \/ s[i].created > BotReplyTime(s, s[i].conv, userID)}

\* a ConversationThread: every row of the conversation as read by the context
\* query, and the greatest last_reply_time among the rows the query matched
ThreadOf(s, conv, matched) ==
  [conversationId |-> conv,
   tweets |-> [i \in {j \in Ids(s) : s[j].conv = conv} |-> s[i]],
   lastReplyTime |-> Max({s[i].lastReplyTime : i \in {j \in matched : s[j].conv = conv}})]

\* the columns of a TweetNeedingReply that handleSingleReply reads
Snapshot(row) ==
  [author |-> row.author, cat |-> row.cat, replied |-> row.replied,
   unread |-> row.unread, created |-> row.created]

\* the thread as the dispatcher holds it after the recall
HeldThread(thread) ==
  [conversationId |-> thread.conversationId,
   tweets |-> [i \in DOMAIN thread.tweets |-> Snapshot(thread.tweets[i])]]

\* "Check if thread needs reply" loop of RecallTweetsNeedingReply
ThreadNeedsReply(thread, userID) ==
  \E i \in DOMAIN thread.tweets :
    LET tw == thread.tweets[i]
    IN /\ tw.author # userID
       /\ \/ tw.unread > 0
          \/ tw.cat = CategoryMention /\ ~tw.replied
          \/ tw.cat = CategoryConversation /\ ~tw.replied
          \/ tw.part /\ tw.created > thread.lastReplyTime

\* one thread for every matched row in place of one for every conversation
RecallThreadsPerTweet(s, ctxFailed) ==
  LET userID == RecallUserID
      matched == {i \in NeedingReply(s, userID) : s[i].conv \notin ctxFailed}
  IN {[conversationId |-> s[i].conv, tweets |-> [j \in {i} |-> Snapshot(s[j])]] :
        i \in matched}

\* threads RecallTweetsNeedingReply returns (as a set: the result slice is
\* filled by ranging over a map); ctxFailed are the conversations whose
\* context query failed, which are skipped
RecallThreads(s, ctxFailed) ==
  LET userID == RecallUserID
      matched == NeedingReply(s, userID)
      convs == {s[i].conv : i \in matched} \ ctxFailed
  IN {HeldThread(th) :
        th \in {x \in {ThreadOf(s, c, matched) : c \in convs} : ThreadNeedsReply(x, userID)}}

\* every order in which a set can be listed
RECURSIVE Orders(_)
Orders(S) ==
  IF S = {} THEN {<<>>}
  ELSE UNION {{<<x>> \o rest : rest \in Orders(S \ {x})} : x \in S}

\* ------------------------------------------------------- dispatcher: target
\* the walk's test without its comparison of the author with the bot id
NeedsReplyCheckAnyAuthor(tw, bot) ==
  \/ tw.cat = CategoryMention /\ ~tw.replied
  \/ tw.cat = CategoryConversation /\ ~tw.replied
  \/ tw.unread > 0

\* the eligibility test of handleSingleReply's newest-to-oldest walk
NeedsReplyCheck(tw, bot) ==
  /\ tw.author # bot
  /\ \/ tw.cat = CategoryMention /\ ~tw.replied
     \/ tw.cat = CategoryConversation /\ ~tw.replied
     \/ tw.unread > 0

\* tweets the walk can stop at: sorted by created_at (rows of equal created_at
\* in either order), walked from the end, the first that passes the test
Targets(thread, bot) ==
  LET ok == {i \in DOMAIN thread.tweets : NeedsReplyCheck(thread.tweets[i], bot)}
  IN {i \in ok : \A j \in ok : thread.tweets[j].created <= thread.tweets[i].created}

\* tweets written into "Previous conversation:" for a target
ContextOf(thread, target) ==
  {i \in DOMAIN thread.tweets :
     thread.tweets[i].created < thread.tweets[target].created}

\* ------------------------------------------------------------------- Init
\* every tweet of the timeline is on the platform and no response is held
NoPage == [maxResults |-> MaxResults, mentions |-> MaxTweets, page |-> <<>>,
           unsaved |-> {}]

NoCur == [target |-> NoId, reply |-> NoId]

\* Agent.actions before RegisterAction; a Scraper before ProcessTasks
NoLoops == <<>>
NoScraper == <<>>

\* no call of ProcessTweetsInBatches under study
NoBatchRun == <<>>

\* no call of handleSingleReply under study
NoSelection == <<>>

Init ==
  /\ timeline \in Timelines
  /\ ingest = NoPage
  /\ ctxDone = FALSE
  /\ loops = NoLoops
  /\ scraper = NoScraper
  /\ batchRun = NoBatchRun
  /\ selection = NoSelection
  /\ lastErr = "nil"
  /\ store = <<>>
  /\ envUserID \in {NoUser, AgentId}
  /\ botID \in (IF envUserID # NoUser THEN {envUserID} ELSE {AgentId, PendingId})
  /\ pc = "idle"
  /\ mode = "none"
  /\ threads = <<>>
  /\ batchLeft = 0
  /\ batchSize = 0
  /\ cur = NoCur
  /\ nextReply = MaxTweets + 1
  /\ tokens = 1
  /\ permit = FALSE
  /\ rateLimited = FALSE
  /\ repliedConvs = {}
  /\ posted = {}
  /\ answered = {}

\* ---------------------------------------------------------------- ingestion
\* the dispatcher is inside no store call: SaveTweet takes the store's mutex,
\* and the dispatcher's steps between its store calls read only its own copy
\* of the threads, so SaveTweet is interleaved at the store calls
StoreUnlocked == pc \in {"idle", "save", "update"}

\* outcomes of one SQL statement; a statement that is not executed, or that
\* matches no row, has the one outcome TRUE
Outcomes(executed) == IF executed THEN BOOLEAN ELSE {TRUE}

\* MentionsHandler.processMentions, one tweet of the page: classify, SaveTweet
SaveTweet(tweet) ==
  LET parent == FirstRepliedTo(tweet.refs)
      isReply == tweet.conversationId # NoId /\ parent # NoId
  IN /\ StoreUnlocked
     /\ ~ctxDone
     /\ \E countOk \in Outcomes(tweet.conversationId # NoId),
           parentOk \in Outcomes(isReply /\ parent \in Ids(store)),
           convOk \in Outcomes(isReply),
           upsertOk \in BOOLEAN :
          /\ (isReply /\ parentOk /\ parent \in Ids(store))
               => store[parent].unread < MaxUnread
          /\ store' = SaveTweetResult(store, tweet, DetermineTweetCategory(tweet),
                                      Now(store), countOk, parentOk, convOk, upsertOk)
     /\ UNCHANGED <<timeline, loops, scraper, batchRun, selection, ingest, ctxDone, envUserID, botID, answered>>
     /\ UNCHANGED cycleVars

\* TweetStore.UpdateBotID, called once the account id was fetched
UpdateBotID ==
  /\ botID = PendingId
  /\ botID' = AgentId
  /\ UNCHANGED <<timeline, loops, scraper, batchRun, selection, ingest, ctxDone, store, envUserID, answered>>
  /\ UNCHANGED cycleVars

\* --------------------------------------------------------------- dispatcher
Min(a, b) == IF a <= b THEN a ELSE b

\* the cycle returns nil: back to the ticker of TweetResponseAction.Execute
CycleReturns ==
  /\ pc' = "idle"
  /\ mode' = "none"
  /\ threads' = <<>>
  /\ batchLeft' = 0
  /\ batchSize' = 0
  /\ cur' = NoCur
  /\ permit' = FALSE
  /\ rateLimited' = FALSE
  /\ repliedConvs' = {}

\* a recall that clears needs_reply on the rows it has read
StartBatchesMarksRows ==
  /\ pc = "idle"
  /\ ~ctxDone
  /\ \E size \in 1..MaxBatch, ctxFailed \in SUBSET ConvIds :
       \E order \in Orders(RecallThreads(store, ctxFailed)) :
         IF order = <<>>
         THEN CycleReturns
         ELSE /\ pc' = "handle"
              /\ mode' = "batches"
              /\ threads' = order
              /\ batchLeft' = Min(size, Len(order))
              /\ batchSize' = size
              /\ UNCHANGED <<cur, permit, rateLimited, repliedConvs>>
  /\ store' = [i \in Ids(store) |-> [store[i] EXCEPT !.needs = FALSE]]
  /\ UNCHANGED <<timeline, loops, scraper, batchRun, selection, ingest, ctxDone, envUserID, botID, nextReply, tokens, posted, answered, lastErr>>

\* ProcessTweetsInBatches up to the first thread of the first batch
StartBatches ==
  /\ pc = "idle"
  /\ ~ctxDone
  /\ \E size \in 1..MaxBatch, ctxFailed \in SUBSET ConvIds :
       \E order \in Orders(RecallThreads(store, ctxFailed)) :
         IF order = <<>>
         THEN CycleReturns
         ELSE /\ pc' = "handle"
              /\ mode' = "batches"
              /\ threads' = order
              /\ batchLeft' = Min(size, Len(order))
              /\ batchSize' = size
              /\ UNCHANGED <<cur, permit, rateLimited, repliedConvs>>
  /\ UNCHANGED <<timeline, loops, scraper, batchRun, selection, ingest, ctxDone, store, envUserID, botID, nextReply, tokens, posted, answered, lastErr>>

\* ProcessTweetsNeedingReply up to the limiter wait of the first thread
StartStream ==
  /\ pc = "idle"
  /\ ~ctxDone
  /\ \E ctxFailed \in SUBSET ConvIds :
       \E order \in Orders(RecallThreads(store, ctxFailed)) :
         IF order = <<>>
         THEN CycleReturns
         ELSE /\ pc' = "wait"
              /\ mode' = "stream"
              /\ threads' = order
              /\ UNCHANGED <<batchLeft, batchSize, cur, permit, rateLimited, repliedConvs>>
  /\ UNCHANGED <<timeline, loops, scraper, batchRun, selection, ingest, ctxDone, store, envUserID, botID, nextReply, tokens, posted, answered, lastErr>>

\* rate.Limiter.Wait returns nil: the bucket's one token is taken
LimiterWait ==
  /\ pc = "wait"
  /\ ~ctxDone
  /\ tokens = 1
  /\ tokens' = 0
  /\ permit' = TRUE
  /\ pc' = "handle"
  /\ UNCHANGED <<timeline, loops, scraper, batchRun, selection, ingest, ctxDone, store, envUserID, botID, mode, threads, batchLeft, batchSize,
                 cur, nextReply, rateLimited, posted, answered, repliedConvs, lastErr>>

\* the limiter's bucket refills as time passes; only Wait observes the bucket
LimiterRefill ==
  /\ pc = "wait"
  /\ tokens = 0
  /\ tokens' = 1
  /\ UNCHANGED <<timeline, loops, scraper, batchRun, selection, ingest, ctxDone, store, envUserID, botID, pc, mode, threads, batchLeft,
                 batchSize, cur, nextReply, permit, rateLimited, posted, answered, repliedConvs, lastErr>>

\* limiter.Wait(ctx) returns the context's error: the loop continues to its
\* next select, which returns ctx.Err()
LimiterWaitCancelled ==
  /\ pc = "wait"
  /\ ctxDone
  /\ CycleReturns
  /\ UNCHANGED <<timeline, loops, scraper, batchRun, selection, ingest, ctxDone, store, envUserID, botID, nextReply, tokens, posted,
                 answered, lastErr>>

\* the context is cancelled while a cycle runs
Cancel ==
  /\ pc # "idle"
  /\ ~ctxDone
  /\ ctxDone' = TRUE
  /\ UNCHANGED <<timeline, loops, scraper, batchRun, selection, ingest, store, envUserID, botID, answered>>
  /\ UNCHANGED cycleVars

\* the cycle returns as soon as handleSingleReply has returned, leaving the
\* threads after it
AfterThreadAborts(rateErr, limited) == CycleReturns

\* what the cycle does once handleSingleReply has returned for Head(threads);
\* rateErr: the returned error is one isRateLimitError recognises;
\* limited: a rate-limit error was returned and no pause followed yet
AfterThread(rateErr, limited) ==
  IF mode = "batches"
  THEN IF batchLeft > 1
       THEN /\ pc' = "handle"
            /\ threads' = Tail(threads)
            /\ batchLeft' = batchLeft - 1
            /\ cur' = NoCur
            /\ permit' = FALSE
            /\ rateLimited' = limited
            /\ UNCHANGED <<mode, batchSize, repliedConvs>>
       ELSE IF Len(threads) > 1
       THEN /\ pc' = "batchDelay"
            /\ threads' = Tail(threads)
            /\ batchLeft' = 0
            /\ cur' = NoCur
            /\ permit' = FALSE
            /\ rateLimited' = limited
            /\ UNCHANGED <<mode, batchSize, repliedConvs>>
       ELSE CycleReturns
  ELSE /\ pc' = IF rateErr THEN "cooldown" ELSE "pause"
       /\ threads' = Tail(threads)
       /\ cur' = NoCur
       /\ permit' = FALSE
       /\ rateLimited' = limited
       /\ UNCHANGED <<mode, batchLeft, batchSize, repliedConvs>>

\* the error handleSingleReply returns before posting, its checks in order
HandleError ==
  IF envUserID = NoUser THEN "error"
  ELSE IF Targets(Head(threads), envUserID) = {} THEN "noTarget"
  ELSE "error"

\* handleSingleReply returns an error before posting: TWITTER_USER_ID unset,
\* no tweet passes the walk, or GenerateReply failed
HandleFails ==
  /\ pc = "handle"
  /\ AfterThread(FALSE, rateLimited)
  /\ lastErr' = HandleError
  /\ UNCHANGED <<timeline, loops, scraper, batchRun, selection, ingest, ctxDone, store, envUserID, botID, nextReply, tokens, posted, answered>>

\* handleSingleReply up to the call of PostReplyThread: sort, walk, generate
HandleSelects ==
  /\ pc = "handle"
  /\ envUserID # NoUser
  /\ \E target \in Targets(Head(threads), envUserID) :
       cur' = [target |-> target, reply |-> NoId]
  /\ pc' = "post"
  /\ UNCHANGED <<timeline, loops, scraper, batchRun, selection, ingest, ctxDone, store, envUserID, botID, mode, threads, batchLeft, batchSize,
                 nextReply, tokens, permit, rateLimited, posted, answered, repliedConvs, lastErr>>

\* PostReplyThread returns the posted tweet; its request carries the context,
\* so a post that completes was sent before the cancellation
PostSucceeds ==
  /\ pc = "post"
  /\ ~ctxDone
  /\ nextReply \in ReplyIds
  /\ cur' = [cur EXCEPT !.reply = nextReply]
  /\ nextReply' = nextReply + 1
  /\ pc' = "save"
  /\ repliedConvs' = repliedConvs \cup {Head(threads).conversationId}
  /\ UNCHANGED <<timeline, loops, scraper, batchRun, selection, ingest, ctxDone, store, envUserID, botID, mode, threads, batchLeft, batchSize,
                 tokens, permit, rateLimited, posted, answered, lastErr>>

\* PostReplyThread returns an error, and the tweet is marked as replied to
\* all the same
PostFailsMarksReplied ==
  /\ pc = "post"
  /\ \E rateErr \in BOOLEAN : AfterThread(rateErr, rateLimited \/ rateErr)
  /\ store' = UpdateTweetAfterReplyResult(store, cur.target, NoId, Now(store))
  /\ lastErr' = "error"
  /\ UNCHANGED <<timeline, loops, scraper, batchRun, selection, ingest, ctxDone, envUserID, botID, nextReply, tokens, posted, answered>>

\* PostReplyThread returns an error; rateErr: HTTP 429 / rate limit exceeded,
\* which a cancelled request does not return
PostFails ==
  /\ pc = "post"
  /\ \E rateErr \in (IF ctxDone THEN {FALSE} ELSE BOOLEAN) :
       AfterThread(rateErr, rateLimited \/ rateErr)
  /\ lastErr' = "error"
  /\ UNCHANGED <<timeline, loops, scraper, batchRun, selection, ingest, ctxDone, store, envUserID, botID, nextReply, tokens, posted, answered>>

\* SaveAgentReply whose statements run outside a transaction: a failure of
\* the second statement leaves the inserted reply row behind
SaveAgentReplyNoTransaction ==
  /\ pc = "save"
  /\ \/ /\ SaveAgentReplyCanCommit(store, cur.reply)
        /\ store' = SaveAgentReplyResult(store, cur.target, cur.reply,
                                         Head(threads).conversationId, Now(store))
        /\ answered' = answered \cup {cur.target}
     \/ /\ SaveAgentReplyCanCommit(store, cur.reply)
        /\ store' = [i \in Ids(store) \cup {cur.reply} |->
                       IF i = cur.reply
                       THEN AgentReplyRow(Head(threads).conversationId, Now(store))
                       ELSE store[i]]
        /\ UNCHANGED answered
     \/ UNCHANGED <<store, answered>>
  /\ pc' = "update"
  /\ UNCHANGED <<timeline, loops, scraper, batchRun, selection, ingest, ctxDone, envUserID, botID, mode, threads, batchLeft, batchSize, cur,
                 nextReply, tokens, permit, rateLimited, posted, repliedConvs, lastErr>>

\* SaveAgentReply after a successful post; its error is only logged
SaveAgentReply ==
  /\ pc = "save"
  /\ \/ /\ SaveAgentReplyCanCommit(store, cur.reply)
        /\ store' = SaveAgentReplyResult(store, cur.target, cur.reply,
                                         Head(threads).conversationId, Now(store))
        /\ answered' = answered \cup {cur.target}
     \/ UNCHANGED <<store, answered>>
  /\ pc' = "update"
  /\ UNCHANGED <<timeline, loops, scraper, batchRun, selection, ingest, ctxDone, envUserID, botID, mode, threads, batchLeft, batchSize, cur,
                 nextReply, tokens, permit, rateLimited, posted, repliedConvs, lastErr>>

\* UpdateTweetAfterReply, then handleSingleReply returns nil
UpdateTweetAfterReply ==
  /\ pc = "update"
  /\ \/ store' = UpdateTweetAfterReplyResult(store, cur.target, cur.reply, Now(store))
     \/ UNCHANGED store
  /\ posted' = posted \cup {cur.target}
  /\ AfterThread(FALSE, rateLimited)
  /\ lastErr' = "nil"
  /\ UNCHANGED <<timeline, loops, scraper, batchRun, selection, ingest, ctxDone, envUserID, botID, nextReply, tokens, answered>>

\* time.Sleep(config.BatchDelay), then the first thread of the next batch
BatchDelay ==
  /\ pc = "batchDelay"
  /\ IF ctxDone
     THEN CycleReturns
     ELSE /\ pc' = "handle"
          /\ batchLeft' = Min(batchSize, Len(threads))
          /\ rateLimited' = FALSE
          /\ UNCHANGED <<mode, threads, batchSize, cur, permit, repliedConvs>>
  /\ UNCHANGED <<timeline, loops, scraper, batchRun, selection, ingest, ctxDone, store, envUserID, botID, nextReply, tokens, posted,
                 answered, lastErr>>

\* the streaming cycle moves on to the next thread, or returns nil
NextInStream ==
  IF threads # <<>> /\ ~ctxDone
  THEN /\ pc' = "wait"
       /\ UNCHANGED <<mode, threads, batchLeft, batchSize, cur, permit, repliedConvs>>
  ELSE /\ pc' = "idle"
       /\ mode' = "none"
       /\ threads' = <<>>
       /\ repliedConvs' = {}
       /\ UNCHANGED <<batchLeft, batchSize, cur, permit>>

\* time.Sleep(5 * time.Minute) after a rate-limit error, then continue
Cooldown ==
  /\ pc = "cooldown"
  /\ NextInStream
  /\ rateLimited' = FALSE
  /\ UNCHANGED <<timeline, loops, scraper, batchRun, selection, ingest, ctxDone, store, envUserID, botID, nextReply, tokens, posted, answered, lastErr>>

\* time.Sleep(100 * time.Millisecond) after every other thread
Pause ==
  /\ pc = "pause"
  /\ NextInStream
  /\ rateLimited' = (IF threads # <<>> /\ ~ctxDone THEN rateLimited ELSE FALSE)
  /\ UNCHANGED <<timeline, loops, scraper, batchRun, selection, ingest, ctxDone, store, envUserID, botID, nextReply, tokens, posted, answered, lastErr>>

Next ==
  \/ \E id \in TweetIds : SaveTweet(timeline[id])
  \/ UpdateBotID
  \/ StartBatches
  \/ StartStream
  \/ LimiterWait
  \/ LimiterWaitCancelled
  \/ LimiterRefill
  \/ Cancel
  \/ HandleFails
  \/ HandleSelects
  \/ PostSucceeds
  \/ PostFails
  \/ SaveAgentReply
  \/ UpdateTweetAfterReply
  \/ BatchDelay
  \/ Cooldown
  \/ Pause

Spec == Init /\ [][Next]_vars

\* ------------------------------------------------------------------ claims
\* C1: once SaveAgentReply has committed for an original tweet, no later
\* recall followed by handleSingleReply's walk picks that tweet as the tweet
\* to reply to.
C1_NoDuplicateReplies == pc = "post" => cur.target \notin answered

\* C2: whenever a conversation holds two or more eligible tweets (not the
\* agent's, and a new mention, a new conversation turn, or backlog of a
\* participating conversation), the recall returns one thread for it and the
\* walk picks exactly the eligible tweet with the greatest created_at.
C2_MostRecentOnly ==
  envUserID = AgentId =>
    \A c \in ConvIds :
      LET eligible ==
            {i \in Ids(store) :
               /\ store[i].conv = c
               /\ store[i].author # AgentId
               /\ \/ store[i].cat = CategoryMention /\ ~store[i].replied
                  \/ store[i].cat = CategoryConversation /\ ~store[i].replied
                  \/ /\ c \in ParticipatingConversations(store)
                     /\ \/ store[i].unread > 0
                        \/ store[i].created > BotReplyTime(store, c, AgentId)}
          latest ==
            {i \in eligible : \A j \in eligible : store[j].created <= store[i].created}
          found == {th \in RecallThreads(store, {}) : th.conversationId = c}
      IN Cardinality(eligible) >= 2 =>
           /\ Cardinality(found) = 1
           /\ \A th \in found : Targets(th, envUserID) = latest

\* C3: the tweet handleSingleReply chose to reply to is never a tweet of the
\* authenticated account, whatever unread_replies its own replies carry.
C3_SelfExclusion ==
  pc \in {"post", "save", "update"} =>
    Head(threads).tweets[cur.target].author # AgentId

\* C3 witness: a reply is about to be posted in a thread that holds a reply
\* of the agent with unread_replies > 0.
C3_Witness ==
  /\ pc = "post"
  /\ \E i \in DOMAIN Head(threads).tweets :
       /\ Head(threads).tweets[i].author = AgentId
       /\ Head(threads).tweets[i].unread > 0

\* C4: a SaveTweet never turns is_participating of a row from true to false.
\* (SaveTweet is the one step that writes the table and leaves the dispatcher
\* where it is; it writes is_participating only in the conversation of the
\* tweet it saves.)
C4_MonotonicParticipation ==
  [][(pc' = pc /\ store' # store) =>
       \A i \in Ids(store) : store[i].part => store'[i].part]_vars

\* C5: saving a tweet a second time, every statement succeeding both times,
\* leaves the table as the first save left it.
C5_IdempotentIngestion ==
  \A id \in TweetIds :
    LET tweet == timeline[id]
        category == DetermineTweetCategory(tweet)
        once == SaveTweetResult(store, tweet, category, Now(store),
                                TRUE, TRUE, TRUE, TRUE)
        twice == SaveTweetResult(once, tweet, category, Now(once),
                                 TRUE, TRUE, TRUE, TRUE)
    IN twice = once

\* C6: every stored row has a non-empty conversation_id.
C6_ConversationIdNeverEmpty == \A i \in Ids(store) : store[i].conv # NoId

\* C7: a SaveTweet whose upsert of the row failed (the call returns "failed
\* to save tweet") leaves the table unchanged: neither the parent's
\* unread_replies / needs_reply nor the siblings' is_participating is written.
C7_SaveTweetAtomic ==
  [][\A id \in TweetIds :
       LET tweet == timeline[id]
           parent == FirstRepliedTo(tweet.refs)
           isReply == tweet.conversationId # NoId /\ parent # NoId
       IN \A countOk \in Outcomes(tweet.conversationId # NoId),
             parentOk \in Outcomes(isReply /\ parent \in Ids(store)),
             convOk \in Outcomes(isReply) :
            (/\ pc' = pc
             /\ store' = SaveTweetResult(store, tweet, DetermineTweetCategory(tweet),
                                         Now(store), countOk, parentOk, convOk, FALSE))
              => store' = store]_vars

\* C8: a tweet to which a reply was posted in an earlier handleSingleReply
\* gets no second reply posted, whether or not SaveAgentReply and
\* UpdateTweetAfterReply succeeded then.
C8_NeverRepostedAfterBookkeepingFailure == pc = "save" => cur.target \notin posted

\* C9: in ProcessTweetsInBatches, PostReplyThread is called only after a
\* permit was taken from the limiter for that call.
C9_PermitBeforeEveryPost == (mode = "batches" /\ pc = "post") => permit

\* C10: after PostReplyThread failed with a rate-limit error, no
\* PostReplyThread is called until the cycle has paused.
C10_CooldownAfterRateLimit == pc = "post" => ~rateLimited

\* C11: when handleSingleReply returns an error from GenerateReply or from
\* PostReplyThread, the table is as it was before the call, and a recall made
\* then still returns the tweet the walk had stopped at, in a thread in which
\* it still passes the walk's test.
C11_FailedAttemptLeavesStore ==
  [][/\ (pc = "post" /\ pc' # "save") =>
          /\ store' = store
          /\ \E th \in RecallThreads(store', {}) :
               /\ cur.target \in DOMAIN th.tweets
               /\ NeedsReplyCheck(th.tweets[cur.target], envUserID)
     /\ (pc = "handle" /\ pc' # "post") =>
          /\ store' = store
          /\ envUserID # NoUser =>
               \A target \in Targets(Head(threads), envUserID) :
                 \E th \in RecallThreads(store', {}) :
                   /\ target \in DOMAIN th.tweets
                   /\ NeedsReplyCheck(th.tweets[target], envUserID)]_vars

\* C11 witness: the streaming cycle sleeps after PostReplyThread failed with
\* a rate-limit error for a stored thread.
C11_Witness == pc = "cooldown" /\ store # <<>>

\* C12: when PostReplyThread fails with an error that is no rate-limit error
\* and fewer than MaxRetries attempts were made for the thread, the cycle
\* tries the same thread again and does not move on.  (A thread is attempted
\* once when PostReplyThread is first called for it.)
C12_BoundedRetry ==
  [][(pc = "post" /\ AfterThread(FALSE, rateLimited) /\ 1 < MaxRetries) =>
       threads' = threads]_vars

\* C13: in ProcessTweetsInBatches, when handleSingleReply fails for a thread
\* (no target, generation error, post error), the cycle goes on with the
\* thread after it, in the same batch or after the delay in the next one, and
\* returns only after the last thread.
C13_FailureIsolation ==
  [][(/\ mode = "batches"
      /\ pc \in {"handle", "post"}
      /\ pc' \notin {"post", "save"}
      /\ pc' # pc \/ threads' # threads) =>
       IF Len(threads) > 1
       THEN /\ threads' = Tail(threads)
            /\ pc' \in {"handle", "batchDelay"}
            /\ mode' = "batches"
       ELSE pc' = "idle"]_vars

\* C13 witness: after a post failed for one thread of a batch, PostReplyThread
\* is about to be called for the next thread.
C13_Witness == mode = "batches" /\ pc = "post" /\ rateLimited

\* C14: every row written by SaveAgentReply has needs_reply = false and the
\* agent's id as author_id, whatever was saved afterwards.
C14_OwnRepliesNeedNoReply ==
  \A i \in Ids(store) \cap ReplyIds :
    /\ store[i].needs = FALSE
    /\ store[i].author = AgentId

\* ------------------------------------------- the cycle when every call succeeds
\* TWITTER_USER_ID is set: without it handleSingleReply returns before the walk
LiveInit == Init /\ envUserID # NoUser

\* SaveTweet with every statement succeeding. A message arrives for the first
\* time at any moment between two cycles; the mentions page delivers a stored
\* message again only until the dispatcher has posted its first reply, so
\* that every run ingests finitely often
SaveTweetSucceeds(tweet) ==
  LET parent == FirstRepliedTo(tweet.refs)
  IN /\ pc = "idle"
     /\ nextReply = MaxTweets + 1 \/ tweet.id \notin Ids(store)
     /\ (tweet.conversationId # NoId /\ parent \in Ids(store))
          => store[parent].unread < MaxUnread
     /\ store' = SaveTweetResult(store, tweet, DetermineTweetCategory(tweet),
                                 Now(store), TRUE, TRUE, TRUE, TRUE)
     /\ UNCHANGED <<timeline, loops, scraper, batchRun, selection, ingest, ctxDone, envUserID, botID, answered>>
     /\ UNCHANGED cycleVars

\* the ticker of TweetResponseAction.Execute fires: ProcessTweetsInBatches
\* with every context query of the recall succeeding
StartBatchesAllRead ==
  /\ pc = "idle"
  /\ \E size \in 1..MaxBatch :
       \E order \in Orders(RecallThreads(store, {})) :
         IF order = <<>>
         THEN CycleReturns
         ELSE /\ pc' = "handle"
              /\ mode' = "batches"
              /\ threads' = order
              /\ batchLeft' = Min(size, Len(order))
              /\ batchSize' = size
              /\ UNCHANGED <<cur, permit, rateLimited, repliedConvs>>
  /\ UNCHANGED <<timeline, loops, scraper, batchRun, selection, ingest, ctxDone, store, envUserID, botID, nextReply, tokens, posted, answered, lastErr>>

\* handleSingleReply returns "no suitable tweet found to reply to in thread":
\* the only error left when GenerateReply succeeds
HandleFindsNoTarget ==
  /\ pc = "handle"
  /\ Targets(Head(threads), envUserID) = {}
  /\ AfterThread(FALSE, rateLimited)
  /\ lastErr' = "noTarget"
  /\ UNCHANGED <<timeline, loops, scraper, batchRun, selection, ingest, ctxDone, store, envUserID, botID, nextReply, tokens, posted, answered>>

\* SaveAgentReply returns nil
SaveAgentReplySucceeds ==
  /\ pc = "save"
  /\ SaveAgentReplyCanCommit(store, cur.reply)
  /\ store' = SaveAgentReplyResult(store, cur.target, cur.reply,
                                   Head(threads).conversationId, Now(store))
  /\ answered' = answered \cup {cur.target}
  /\ pc' = "update"
  /\ UNCHANGED <<timeline, loops, scraper, batchRun, selection, ingest, ctxDone, envUserID, botID, mode, threads, batchLeft, batchSize, cur,
                 nextReply, tokens, permit, rateLimited, posted, repliedConvs, lastErr>>

\* UpdateTweetAfterReply returns nil, then handleSingleReply returns nil
UpdateTweetAfterReplySucceeds ==
  /\ pc = "update"
  /\ store' = UpdateTweetAfterReplyResult(store, cur.target, cur.reply, Now(store))
  /\ posted' = posted \cup {cur.target}
  /\ AfterThread(FALSE, rateLimited)
  /\ lastErr' = "nil"
  /\ UNCHANGED <<timeline, loops, scraper, batchRun, selection, ingest, ctxDone, envUserID, botID, nextReply, tokens, answered>>

\* the steps of the dispatcher's goroutine
LiveCycle ==
  \/ StartBatchesAllRead
  \/ HandleFindsNoTarget
  \/ HandleSelects
  \/ PostSucceeds
  \/ SaveAgentReplySucceeds
  \/ UpdateTweetAfterReplySucceeds
  \/ BatchDelay

LiveNext ==
  \/ \E id \in TweetIds : SaveTweetSucceeds(timeline[id])
  \/ StartBatchesAllRead
  \/ HandleFindsNoTarget
  \/ HandleSelects
  \/ PostSucceeds
  \/ SaveAgentReplySucceeds
  \/ UpdateTweetAfterReplySucceeds
  \/ BatchDelay

\* the ticker keeps firing and no call of the dispatcher blocks for ever
LiveSpec == LiveInit /\ [][LiveNext]_vars /\ WF_vars(LiveCycle)

\* a stored message of a user, mention or conversation turn, not replied to
Unanswered(i) ==
  /\ i \in Ids(store)
  /\ store[i].author # AgentId
  /\ store[i].cat \in {CategoryMention, CategoryConversation}
  /\ ~store[i].replied

C16_OneReplyPerConversation ==
  pc = "post" => Head(threads).conversationId \notin repliedConvs

\* a cycle that has posted in one conversation is about to post in another
C16_Witness == pc = "post" /\ repliedConvs # {}

\* C17: when a message is stored for the first time, unread_replies of a
\* stored row P (with a conversation id) grows only when P belongs to a
\* conversation the agent participates in (some row of P's conversation has
\* is_participating set) before that step.
C17_UnreadOnlyWhenParticipating ==
  [][\A P \in Ids(store) :
       (/\ Ids(store') # Ids(store)
        /\ store[P].conv # NoId
        /\ store'[P].unread > store[P].unread)
         => store[P].conv \in ParticipatingConversations(store)]_vars

\* the step in which SaveAgentReply returns nil for cur.target and cur.reply
SaveAgentReplyReturnsNil ==
  /\ pc = "save"
  /\ pc' = "update"
  /\ cur.reply \in Ids(store') \ Ids(store)

\* C18: when SaveAgentReply succeeds for a message, unread_replies of that
\* message is 0 after the call.
C18_UnreadResetOnReply ==
  [][SaveAgentReplyReturnsNil => store'[cur.target].unread = 0]_vars

\* C19: after SaveAgentReply returns nil, the reply row exists with category
\* reply, needs_reply = false, is_participating = true, replied_to = false and
\* the agent as author; the original has replied_to = true, needs_reply =
\* false and last_reply_id = the reply's id; every row of the conversation id
\* has is_participating = true.
C19_SaveAgentReplyPostconditions ==
  [][SaveAgentReplyReturnsNil =>
       LET r == store'[cur.reply]
           o == store'[cur.target]
       IN /\ r.cat = CategoryReply
          /\ ~r.needs
          /\ r.part
          /\ ~r.replied
          /\ r.author = AgentId
          /\ o.replied
          /\ ~o.needs
          /\ o.lastReplyId = cur.reply
          /\ \A i \in Ids(store') :
               store'[i].conv = Head(threads).conversationId => store'[i].part]_vars

\* SaveAgentReply has just returned nil for a thread that holds, next to the
\* original, another row of a user
C19_Witness ==
  /\ pc = "update"
  /\ cur.reply \in Ids(store)
  /\ \E i \in DOMAIN Head(threads).tweets : i # cur.target /\ i \in TweetIds

\* C20: a call of SaveAgentReply either commits its three statements or
\* leaves the table exactly as it was before the call.
C20_SaveAgentReplyAllOrNothing ==
  [][(pc = "save" /\ pc' = "update") =>
       \/ store' = store
       \/ /\ SaveAgentReplyCanCommit(store, cur.reply)
          /\ store' = SaveAgentReplyResult(store, cur.target, cur.reply,
                                           Head(threads).conversationId, Now(store))]_vars

\* SaveAgentReply has returned an error: the posted reply has no row
C20_Witness == pc = "update" /\ cur.reply \notin Ids(store)

\* the table without its timestamp columns that a reply sets
IgnoringTimestamps(s) == [i \in Ids(s) |-> [s[i] EXCEPT !.lastReplyTime = ZeroTime]]

\* C21: for every table, tweet id and reply id, UpdateTweetAfterReply called
\* twice leaves the table equal, timestamps ignored, to the table after one
\* call, and a stored tweet then has replied_to = true, needs_reply = false
\* and last_reply_id = the reply id.
C21_UpdateTweetAfterReplyIdempotent ==
  \A tweetID \in AllIds, replyTweetID \in ReplyIds :
    LET once == UpdateTweetAfterReplyResult(store, tweetID, replyTweetID, Now(store))
        twice == UpdateTweetAfterReplyResult(once, tweetID, replyTweetID, Now(once))
    IN /\ IgnoringTimestamps(twice) = IgnoringTimestamps(once)
       /\ tweetID \in Ids(store) =>
            /\ once[tweetID].replied
            /\ ~once[tweetID].needs
            /\ once[tweetID].lastReplyId = replyTweetID

\* UpdateTweetAfterReply has run for a tweet that SaveAgentReply had already
\* marked: the second write of the same columns
C21_Witness ==
  /\ posted \cap answered # {}
  /\ \E i \in posted \cap answered : i \in Ids(store) /\ store[i].replied

\* the agent's replies recorded for a conversation: a row written by
\* SaveAgentReply with that conversation id, or a row of the conversation
\* that SaveAgentReply or UpdateTweetAfterReply marked as replied to
RepliedInto(s, conv) ==
  \E i \in Ids(s) :
    /\ s[i].conv = conv
    /\ s[i].cat = CategoryReply \/ s[i].replied

\* C22: a step that stores a new message leaves is_participating = true on a
\* row only if a reply of the agent is recorded for the row's conversation id.
C22_ParticipatingOnlyAfterReply ==
  [][Ids(store') # Ids(store) =>
       \A i \in Ids(store') : store'[i].part => RepliedInto(store', store'[i].conv)]_vars

\* C23: in every reachable state a row with replied_to = true has
\* needs_reply = false, also after the answered message was saved again.
C23_RepliedNeedsNoReply ==
  \A i \in Ids(store) : store[i].replied => ~store[i].needs

\* C24: when SaveTweet stores a new reply m (conversation id set, replied_to
\* P), P is a stored row of m's conversation and the call has counted m as
\* a reply to P, P has is_participating = true after the call.
C24_ReplyMarksParentParticipating ==
  [][\A m \in TweetIds :
       LET P == FirstRepliedTo(timeline[m].refs)
       IN (/\ m \in Ids(store') \ Ids(store)
           /\ timeline[m].conversationId # NoId
           /\ P \in Ids(store)
           /\ store[P].conv = timeline[m].conversationId
           /\ store'[P].unread = store[P].unread + 1)
            => store'[P].part]_vars

\* ------------------------------------------------ the classifier on its own
MaxRefs == 2

\* ReferencedTweet.Type values the classifier tells apart
RefTypes == {"replied_to", "quoted", "retweeted"}

\* every referenced_tweets list of at most MaxRefs entries; the entries point
\* at a tweet that is not stored
ClassifierRefLists ==
  UNION {[1..n -> [type : RefTypes, id : {MaxTweets + 1}]] : n \in 0..MaxRefs}

ClassifierTweets ==
  [id : TweetIds, conversationId : ConvIds, authorId : {UserId},
   refs : ClassifierRefLists]

ClassifyInit ==
  /\ timeline \in {tl \in [TweetIds -> ClassifierTweets] :
                     \A id \in TweetIds : tl[id].id = id}
  /\ ingest = NoPage
  /\ ctxDone = FALSE
  /\ loops = NoLoops
  /\ scraper = NoScraper
  /\ batchRun = NoBatchRun
  /\ selection = NoSelection
  /\ lastErr = "nil"
  /\ store = <<>>
  /\ envUserID = AgentId
  /\ botID = AgentId
  /\ pc = "idle"
  /\ mode = "none"
  /\ threads = <<>>
  /\ batchLeft = 0
  /\ batchSize = 0
  /\ cur = NoCur
  /\ nextReply = MaxTweets + 1
  /\ tokens = 1
  /\ permit = FALSE
  /\ rateLimited = FALSE
  /\ posted = {}
  /\ repliedConvs = {}
  /\ answered = {}

\* processMentions for one tweet of the page: DetermineTweetCategory, then
\* SaveTweet with the category, every statement succeeding
ClassifyAndSave(tweet) ==
  /\ tweet.id \notin Ids(store)
  /\ store' = SaveTweetResult(store, tweet, DetermineTweetCategory(tweet),
                              Now(store), TRUE, TRUE, TRUE, TRUE)
  /\ UNCHANGED <<timeline, loops, scraper, batchRun, selection, ingest, ctxDone, envUserID, botID, answered>>
  /\ UNCHANGED cycleVars

ClassifyNext == \E id \in TweetIds : ClassifyAndSave(timeline[id])

ClassifySpec == ClassifyInit /\ [][ClassifyNext]_vars

\* C25: the category stored for a tweet is conversation if its list holds a
\* replied_to entry and its conversation id is not empty; otherwise quote if
\* the list holds a quoted entry; otherwise retweet if it holds a retweeted
\* entry; otherwise mention, whatever the order of the entries.
C25_CategoryByPriority ==
  \A i \in Ids(store) :
    LET tweet == timeline[i]
        has(type) == \E k \in 1..Len(tweet.refs) : tweet.refs[k].type = type
    IN store[i].cat =
         IF has("replied_to") /\ tweet.conversationId # NoId THEN CategoryConversation
         ELSE IF has("quoted") THEN CategoryQuote
         ELSE IF has("retweeted") THEN CategoryRetweet
         ELSE CategoryMention

\* C26: once the context is cancelled the cycle hands no further thread to
\* handleSingleReply: no step taken after the cancellation makes another
\* thread the one being handled.
C26_NoThreadAfterCancel ==
  [][(ctxDone /\ pc' = "handle") => (pc = "handle" /\ threads' = threads)]_vars

\* C27: when handleSingleReply is done with a thread in which no tweet passes
\* the walk, no reply was posted, the table is unchanged and the call has
\* returned nil.
C27_NoTargetIsNoError ==
  [][(/\ pc = "handle"
      /\ envUserID # NoUser
      /\ Targets(Head(threads), envUserID) = {}
      /\ pc' # pc \/ threads' # threads) =>
       /\ store' = store
       /\ nextReply' = nextReply
       /\ lastErr' = "nil"]_vars

\* most recent activity of a recalled thread: its newest row
Activity(thread) == Max({thread.tweets[i].created : i \in DOMAIN thread.tweets})

\* C28: the threads a cycle gets from RecallTweetsNeedingReply are listed by
\* most recent activity first: no thread is followed by one of later
\* activity.
C28_RecallOrderedByActivity ==
  [][(pc = "idle" /\ pc' # "idle") =>
       \A k \in 1..(Len(threads') - 1) :
         Activity(threads'[k]) >= Activity(threads'[k + 1])]_vars

\* ------------------------------------------------- the ingestion cycle alone
\* the first response of the mentions endpoint: the most recent max_results
\* of the n tweets the platform holds, newest first. CheckMentions reads one
\* response from the channel and returns.
FirstPage(n, maxResults) == [k \in 1..Min(n, maxResults) |-> n - k + 1]

Range(seq) == {seq[k] : k \in 1..Len(seq)}

IngestInit ==
  /\ timeline \in Timelines
  /\ ingest \in {[maxResults |-> m, mentions |-> 0, page |-> <<>>, unsaved |-> {}] :
                   m \in 1..MaxResults}
  /\ ctxDone = FALSE
  /\ loops = NoLoops
  /\ scraper = NoScraper
  /\ batchRun = NoBatchRun
  /\ selection = NoSelection
  /\ lastErr = "nil"
  /\ store = <<>>
  /\ envUserID = AgentId
  /\ botID = AgentId
  /\ pc = "idle"
  /\ mode = "none"
  /\ threads = <<>>
  /\ batchLeft = 0
  /\ batchSize = 0
  /\ cur = NoCur
  /\ nextReply = MaxTweets + 1
  /\ tokens = 1
  /\ permit = FALSE
  /\ rateLimited = FALSE
  /\ posted = {}
  /\ repliedConvs = {}
  /\ answered = {}

\* a user posts the next tweet of the timeline
NewMention ==
  /\ ingest.mentions < MaxTweets
  /\ ingest' = [ingest EXCEPT !.mentions = @ + 1]
  /\ UNCHANGED <<timeline, loops, scraper, batchRun, selection, ctxDone, store, envUserID, botID, answered>>
  /\ UNCHANGED cycleVars

\* MentionsHandler.CheckMentions up to the call of processMentions
CheckMentions ==
  /\ ingest.page = <<>>
  /\ ingest.mentions > 0
  /\ ~ctxDone
  /\ ingest' = [ingest EXCEPT !.page = FirstPage(ingest.mentions, ingest.maxResults)]
  /\ UNCHANGED <<timeline, loops, scraper, batchRun, selection, ctxDone, store, envUserID, botID, answered>>
  /\ UNCHANGED cycleVars

\* processMentions returns at the first tweet whose SaveTweet fails
ProcessMentionAborts ==
  LET id == Head(ingest.page)
      tweet == timeline[id]
      parent == FirstRepliedTo(tweet.refs)
      isReply == tweet.conversationId # NoId /\ parent # NoId
  IN /\ ingest.page # <<>>
     /\ ~ctxDone
     /\ \E countOk \in Outcomes(tweet.conversationId # NoId),
           parentOk \in Outcomes(isReply /\ parent \in Ids(store)),
           convOk \in Outcomes(isReply),
           upsertOk \in BOOLEAN :
          /\ (isReply /\ parentOk /\ parent \in Ids(store))
               => store[parent].unread < MaxUnread
          /\ store' = SaveTweetResult(store, tweet, DetermineTweetCategory(tweet),
                                      Now(store), countOk, parentOk, convOk, upsertOk)
          /\ ingest' = [ingest EXCEPT
                          !.page = IF upsertOk THEN Tail(@) ELSE <<>>,
                          !.unsaved = IF upsertOk THEN @ \ {id} ELSE @ \cup {id}]
     /\ UNCHANGED <<timeline, loops, scraper, batchRun, selection, ctxDone, envUserID, botID, answered>>
     /\ UNCHANGED cycleVars

\* one iteration of the loop of processMentions: classify the tweet, SaveTweet,
\* and on its error log and continue
ProcessMention ==
  LET id == Head(ingest.page)
      tweet == timeline[id]
      parent == FirstRepliedTo(tweet.refs)
      isReply == tweet.conversationId # NoId /\ parent # NoId
  IN /\ ingest.page # <<>>
     /\ ~ctxDone
     /\ \E countOk \in Outcomes(tweet.conversationId # NoId),
           parentOk \in Outcomes(isReply /\ parent \in Ids(store)),
           convOk \in Outcomes(isReply),
           upsertOk \in BOOLEAN :
          /\ (isReply /\ parentOk /\ parent \in Ids(store))
               => store[parent].unread < MaxUnread
          /\ store' = SaveTweetResult(store, tweet, DetermineTweetCategory(tweet),
                                      Now(store), countOk, parentOk, convOk, upsertOk)
          /\ ingest' = [ingest EXCEPT
                          !.page = Tail(@),
                          !.unsaved = IF upsertOk THEN @ \ {id} ELSE @ \cup {id}]
     /\ UNCHANGED <<timeline, loops, scraper, batchRun, selection, ctxDone, envUserID, botID, answered>>
     /\ UNCHANGED cycleVars

\* the context is cancelled while a response is processed
CancelIngestion ==
  /\ ingest.page # <<>>
  /\ ~ctxDone
  /\ ctxDone' = TRUE
  /\ UNCHANGED <<timeline, loops, scraper, batchRun, selection, ingest, store, envUserID, botID, answered>>
  /\ UNCHANGED cycleVars

\* the select at the head of the loop of processMentions returns ctx.Err()
ProcessMentionsCancelled ==
  /\ ingest.page # <<>>
  /\ ctxDone
  /\ ingest' = [ingest EXCEPT !.page = <<>>]
  /\ UNCHANGED <<timeline, loops, scraper, batchRun, selection, ctxDone, store, envUserID, botID, answered>>
  /\ UNCHANGED cycleVars

IngestNext ==
  \/ NewMention
  \/ CheckMentions
  \/ ProcessMention
  \/ CancelIngestion
  \/ ProcessMentionsCancelled

IngestSpec == IngestInit /\ [][IngestNext]_vars

\* C29: the tweets of a response are classified and saved in the order
\* received, and a failing SaveTweet does not keep the later tweets of the
\* response from being saved: every iteration, failing or not, stores no row
\* but that of the first tweet left and leaves the tweets after it to do.
C29_IngestionIsolatesFailures ==
  [][(ingest.page # <<>> /\ ~ctxDone /\ ingest'.page # ingest.page) =>
       /\ ingest'.page = Tail(ingest.page)
       /\ Ids(store') \ Ids(store) \subseteq {Head(ingest.page)}]_vars

\* SaveTweet has failed for the first tweet of a response of two, and the
\* second is the next to be saved
C29_Witness ==
  /\ Len(ingest.page) = 1
  /\ ingest.maxResults = 2
  /\ ingest.mentions = 2
  /\ 2 \in ingest.unsaved

\* C30: a tweet whose SaveTweet error was logged, the cycle returning nil,
\* and that has no row is fetched again: it is among the tweets of the next
\* response.
C30_FailedTweetFetchedAgain ==
  \A id \in ingest.unsaved :
    id \notin Ids(store) =>
      id \in Range(FirstPage(ingest.mentions, ingest.maxResults))

ActionNames == {"mentions_handler", "original_thought_poster", "tweet_response"}

\* actions whose Stop closes a channel: MentionsHandler.done,
\* OriginalThoughtAction.stopChan; TweetResponseAction has no such field
HasStopChannel(a) == a \in {"mentions_handler", "original_thought_poster"}

\* every action constructed and its Execute started by Agent.Run
LoopsInit ==
  /\ timeline = CHOOSE tl \in Timelines : TRUE
  /\ ingest = NoPage
  /\ ctxDone = FALSE
  /\ loops = [a \in ActionNames |->
                [at |-> "select", ticking |-> TRUE, done |-> FALSE,
                 stopCalled |-> FALSE, err |-> "nil"]]
  /\ scraper = NoScraper
  /\ batchRun = NoBatchRun
  /\ selection = NoSelection
  /\ lastErr = "nil"
  /\ store = <<>>
  /\ envUserID = AgentId
  /\ botID = AgentId
  /\ pc = "idle"
  /\ mode = "none"
  /\ threads = <<>>
  /\ batchLeft = 0
  /\ batchSize = 0
  /\ cur = NoCur
  /\ nextReply = MaxTweets + 1
  /\ tokens = 1
  /\ permit = FALSE
  /\ rateLimited = FALSE
  /\ repliedConvs = {}
  /\ posted = {}
  /\ answered = {}

notLoops ==
  <<timeline, ingest, scraper, batchRun, selection, store, envUserID, botID, answered, pc, mode, threads, batchLeft,
    batchSize, cur, nextReply, tokens, permit, rateLimited, posted, repliedConvs, lastErr>>

\* case <-ticker.C: the loop calls CheckMentions, PostOriginalThought or
\* ProcessTweetsInBatches
Tick(a) ==
  /\ loops[a].at = "select"
  /\ loops[a].ticking
  /\ loops' = [loops EXCEPT ![a].at = "cycle"]
  /\ UNCHANGED <<ctxDone, notLoops>>

\* the cycle returns nil
CycleSucceeds(a) ==
  /\ loops[a].at = "cycle"
  /\ loops' = [loops EXCEPT ![a].at = "select", ![a].err = "nil"]
  /\ UNCHANGED <<ctxDone, notLoops>>

\* a loop that returns the error of its cycle
CycleFailsLoopReturns(a) ==
  /\ loops[a].at = "cycle"
  /\ loops' = [loops EXCEPT ![a].at = "returned", ![a].err = "error"]
  /\ UNCHANGED <<ctxDone, notLoops>>

\* the cycle returns an error: it is logged and the loop selects again
CycleFails(a) ==
  /\ loops[a].at = "cycle"
  /\ loops' = [loops EXCEPT ![a].at = "select", ![a].err = "error"]
  /\ UNCHANGED <<ctxDone, notLoops>>

\* case <-ctx.Done(): return ctx.Err()
ReturnsCancelled(a) ==
  /\ loops[a].at = "select"
  /\ ctxDone
  /\ loops' = [loops EXCEPT ![a].at = "returned", ![a].err = "ctx",
                            ![a].ticking = FALSE]
  /\ UNCHANGED <<ctxDone, notLoops>>

\* case <-h.done / case <-a.stopChan: return nil
ReturnsStopped(a) ==
  /\ loops[a].at = "select"
  /\ loops[a].done
  /\ loops' = [loops EXCEPT ![a].at = "returned", ![a].err = "nil",
                            ![a].ticking = IF a = "mentions_handler" THEN @ ELSE FALSE]
  /\ UNCHANGED <<ctxDone, notLoops>>

\* Action.Stop(): MentionsHandler stops its ticker and closes done,
\* OriginalThoughtAction closes stopChan, TweetResponseAction writes a log line
Stop(a) ==
  /\ ~loops[a].stopCalled
  /\ loops' = [loops EXCEPT
                 ![a].stopCalled = TRUE,
                 ![a].done = HasStopChannel(a),
                 ![a].ticking = IF a = "mentions_handler" THEN FALSE ELSE @]
  /\ UNCHANGED <<ctxDone, notLoops>>

\* the context handed to Agent.Run is cancelled
CancelRun ==
  /\ ~ctxDone
  /\ ctxDone' = TRUE
  /\ UNCHANGED <<loops, notLoops>>

LoopStep(a) ==
  \/ Tick(a)
  \/ CycleSucceeds(a)
  \/ CycleFails(a)
  \/ ReturnsCancelled(a)
  \/ ReturnsStopped(a)

LoopsNext ==
  \/ \E a \in ActionNames : LoopStep(a)
  \/ \E a \in ActionNames : Stop(a)
  \/ CancelRun

\* each goroutine of Agent.Run is scheduled; a select with several ready cases
\* picks one of them at random, so a case that is ready again and again is taken
LoopsSpec ==
  /\ LoopsInit
  /\ [][LoopsNext]_vars
  /\ \A a \in ActionNames :
       /\ WF_vars(LoopStep(a))
       /\ SF_vars(ReturnsStopped(a))
       /\ SF_vars(ReturnsCancelled(a))

\* C32: the ingestion loop and the dispatch loop survive cycle errors: when a
\* cycle ends, with an error or without, the loop is back at its select; a
\* loop that saw an error runs another cycle unless it is cancelled or
\* stopped; a loop returns only when its context is cancelled or its action
\* was stopped.
C32_LoopsSurviveCycleErrors ==
  /\ [][\A a \in {"mentions_handler", "tweet_response"} :
          /\ (loops[a].at = "cycle" /\ loops'[a].at # "cycle")
               => loops'[a].at = "select"
          /\ (loops[a].at # "returned" /\ loops'[a].at = "returned")
               => (ctxDone \/ loops[a].stopCalled)]_vars
  /\ \A a \in {"mentions_handler", "tweet_response"} :
       (loops[a].at = "select" /\ loops[a].err = "error")
         ~> (loops[a].at = "cycle" \/ ctxDone \/ loops[a].stopCalled)

\* both loops run a cycle after a cycle that returned an error
C32_Witness ==
  /\ ~ctxDone
  /\ \A a \in {"mentions_handler", "tweet_response"} :
       loops[a].at = "cycle" /\ loops[a].err = "error"

\* C39: Stop cleanly stops an action: after Stop() the Execute loop of every
\* registered action eventually returns, also when the context is never
\* cancelled.
C39_StopEndsExecute ==
  \A a \in ActionNames :
    loops[a].stopCalled ~> (loops[a].at = "returned" \/ ctxDone)

\* the bookkeeping columns of a row
Bookkeeping(row) ==
  <<row.needs, row.replied, row.unread, row.lastReplyId, row.part>>

\* C33: ingesting a new reply whose replied_to parent is a stored reply of the
\* agent increases the parent's unread_replies by exactly one and leaves the
\* bookkeeping columns of every other row stored before unchanged.
C33_ReplyToAgentTouchesParentOnly ==
  [][\A m \in TweetIds :
       LET P == FirstRepliedTo(timeline[m].refs)
       IN (/\ m \notin Ids(store)
           /\ m \in Ids(store')
           /\ timeline[m].conversationId # NoId
           /\ P \in Ids(store) \cap ReplyIds)
            => /\ store'[P].unread = store[P].unread + 1
               /\ \A i \in Ids(store) \ {P} :
                    Bookkeeping(store'[i]) = Bookkeeping(store[i])]_vars

\* --------------------------------- the batch loop of ProcessTweetsInBatches
\* the store, the dispatch cycle and the ingestion before anything has run
AtRest ==
  /\ timeline = CHOOSE tl \in Timelines : TRUE
  /\ ingest = NoPage
  /\ ctxDone = FALSE
  /\ lastErr = "nil"
  /\ store = <<>>
  /\ envUserID = AgentId
  /\ botID = AgentId
  /\ pc = "idle"
  /\ mode = "none"
  /\ threads = <<>>
  /\ batchLeft = 0
  /\ batchSize = 0
  /\ cur = NoCur
  /\ nextReply = MaxTweets + 1
  /\ tokens = 1
  /\ permit = FALSE
  /\ rateLimited = FALSE
  /\ repliedConvs = {}
  /\ posted = {}
  /\ answered = {}

dispatchVars ==
  <<timeline, ingest, ctxDone, store, envUserID, botID, answered, pc, mode, threads, batchLeft,
    batchSize, cur, nextReply, tokens, permit, rateLimited, posted, repliedConvs, lastErr>>

\* BatchProcessConfig.BatchSize is an int no constructor validates
BatchSizes == (0 - 1)..MaxBatchSize

\* ProcessTweetsInBatches after the recall returned total threads, at the
\* head of its loop with i = 0; thread k of the recall result is written k,
\* a BatchDelay sleep is written 0 in events
BatchInit ==
  /\ AtRest
  /\ loops = NoLoops
  /\ scraper = NoScraper
  /\ selection = NoSelection
  /\ batchRun \in {[total |-> n, size |-> b, i |-> 0, end |-> 0, j |-> 0,
                    events |-> <<>>, at |-> "head"] :
                     n \in 0..MaxThreads, b \in BatchSizes}

\* a loop that sleeps after every batch
SleepsAfterEveryBatch(end, total) == TRUE

\* if end < totalThreads { time.Sleep(config.BatchDelay) }
SleepsAfterBatch(end, total) == end < total

\* loop test, end := min(i + BatchSize, totalThreads), batch := threads[i:end]
\* and the "batch_number" log field i/config.BatchSize + 1: the slice
\* expression panics when end < i, the division when BatchSize = 0
BatchHead ==
  LET r == batchRun
      end == Min(r.i + r.size, r.total)
  IN /\ r.at = "head"
     /\ batchRun' =
          IF r.i >= r.total THEN [r EXCEPT !.at = "returned"]
          ELSE IF end < r.i \/ r.size = 0 THEN [r EXCEPT !.at = "panicked"]
          ELSE [r EXCEPT !.end = end, !.j = r.i, !.at = "inner"]
     /\ UNCHANGED <<loops, scraper, selection, dispatchVars>>

\* for _, thread := range batch: handleSingleReply, its error only logged
BatchHandle ==
  LET r == batchRun
  IN /\ r.at = "inner"
     /\ r.j < r.end
     /\ batchRun' = [r EXCEPT !.j = r.j + 1, !.events = Append(@, r.j + 1)]
     /\ UNCHANGED <<loops, scraper, selection, dispatchVars>>

\* the batch is exhausted: sleep or go on to i += BatchSize
BatchEnds ==
  LET r == batchRun
  IN /\ r.at = "inner"
     /\ r.j = r.end
     /\ batchRun' =
          IF SleepsAfterBatch(r.end, r.total)
          THEN [r EXCEPT !.at = "sleep"]
          ELSE [r EXCEPT !.i = r.i + r.size, !.at = "head"]
     /\ UNCHANGED <<loops, scraper, selection, dispatchVars>>

\* time.Sleep(config.BatchDelay) returns, then i += BatchSize
BatchSleeps ==
  LET r == batchRun
  IN /\ r.at = "sleep"
     /\ batchRun' = [r EXCEPT !.i = r.i + r.size, !.at = "head",
                              !.events = Append(@, 0)]
     /\ UNCHANGED <<loops, scraper, selection, dispatchVars>>

BatchNext ==
  \/ BatchHead
  \/ BatchHandle
  \/ BatchEnds
  \/ BatchSleeps

BatchSpec == BatchInit /\ [][BatchNext]_vars

\* threads first..total in order, a sleep after every size-th thread that is
\* not the last
RECURSIVE ExpectedEvents(_, _, _)
ExpectedEvents(first, total, size) ==
  IF first > total THEN <<>>
  ELSE <<first>>
         \o (IF first % size = 0 /\ first < total THEN <<0>> ELSE <<>>)
         \o ExpectedEvents(first + 1, total, size)

C37_BatchesReturnForEveryConfig ==
  batchRun # NoBatchRun => batchRun.at # "panicked"

\* ------------------------------- handleSingleReply: target and context
\* the columns of a conversation's rows that the walk and the context read;
\* created_at is a TIMESTAMP column without a unique constraint
ThreadRows ==
  [author : {UserId, AgentId}, cat : {CategoryMention}, replied : BOOLEAN,
   unread : {0}, created : 1..MaxCreated]

\* the orders sort.Slice by CreatedAt can leave a thread in: ascending
\* created_at; the sort is not stable and the context query orders by
\* created_at alone, so rows of equal created_at come in any order
AscendingOrders(rows) ==
  {o \in Orders(DOMAIN rows) :
     \A k \in 1..(Len(o) - 1) : rows[o[k]].created <= rows[o[k + 1]].created}

\* the walk from the newest tweet: the last tweet of the sorted thread that
\* passes the test, NoId when none does
RECURSIVE WalkTarget(_, _, _)
WalkTarget(rows, sorted, bot) ==
  IF sorted = <<>> THEN NoId
  ELSE IF NeedsReplyCheck(rows[sorted[Len(sorted)]], bot) THEN sorted[Len(sorted)]
  ELSE WalkTarget(rows, SubSeq(sorted, 1, Len(sorted) - 1), bot)

\* a context test that also takes tweets as old as the target
InContextUpToTarget(tweet, lastTweet) == tweet.created <= lastTweet.created

\* if tweet.CreatedAt.Before(lastTweet.CreatedAt)
InContext(tweet, lastTweet) == tweet.created < lastTweet.created

\* "Previous conversation:" lines, in the order of the sorted thread
RECURSIVE ContextSeq(_, _, _)
ContextSeq(rows, sorted, target) ==
  IF sorted = <<>> THEN <<>>
  ELSE (IF InContext(rows[Head(sorted)], rows[target]) THEN <<Head(sorted)>> ELSE <<>>)
         \o ContextSeq(rows, Tail(sorted), target)

\* handleSingleReply is called with a thread of one to MaxRows tweets
SelectInit ==
  /\ AtRest
  /\ loops = NoLoops
  /\ scraper = NoScraper
  /\ batchRun = NoBatchRun
  /\ selection \in {[rows |-> r, sorted |-> <<>>, target |-> NoId, context |-> <<>>,
                     at |-> "sort"] :
                      r \in UNION {[1..n -> ThreadRows] : n \in 1..MaxRows}}

\* sort.Slice(thread.Tweets, ... CreatedAt.Before ...)
SortThread ==
  /\ selection.at = "sort"
  /\ \E o \in AscendingOrders(selection.rows) :
       selection' = [selection EXCEPT !.sorted = o, !.at = "walk"]
  /\ UNCHANGED <<loops, scraper, batchRun, dispatchVars>>

\* the walk: a target is found, or the function returns its error
WalkThread ==
  LET target == WalkTarget(selection.rows, selection.sorted, envUserID)
  IN /\ selection.at = "walk"
     /\ selection' = [selection EXCEPT
                        !.target = target,
                        !.at = IF target = NoId THEN "noTarget" ELSE "context"]
     /\ UNCHANGED <<loops, scraper, batchRun, dispatchVars>>

\* the conversation context handed to GenerateReply
BuildContext ==
  /\ selection.at = "context"
  /\ selection' = [selection EXCEPT
                     !.context = ContextSeq(selection.rows, selection.sorted,
                                            selection.target),
                     !.at = "generate"]
  /\ UNCHANGED <<loops, scraper, batchRun, dispatchVars>>

SelectNext ==
  \/ SortThread
  \/ WalkThread
  \/ BuildContext

SelectSpec == SelectInit /\ [][SelectNext]_vars

C36_TargetIsDeterministic ==
  (selection # NoSelection /\ selection.at \in {"context", "noTarget", "generate"}) =>
    \A o \in AscendingOrders(selection.rows) :
      WalkTarget(selection.rows, o, envUserID) = selection.target

\* ------------------------------ ingestion running beside a dispatch cycle
\* SaveTweet called by the mentions handler's goroutine while the dispatcher
\* is inside handleSingleReply: the recall released the store's read lock when
\* it returned, and handleSingleReply takes no lock before SaveAgentReply.
\* Every statement succeeds and every tweet is ingested once.
SaveTweetDuringCycle(tweet) ==
  LET parent == FirstRepliedTo(tweet.refs)
  IN /\ pc \in {"idle", "handle", "post"}
     /\ tweet.id \notin Ids(store)
     /\ (tweet.conversationId # NoId /\ parent \in Ids(store))
          => store[parent].unread < MaxUnread
     /\ store' = SaveTweetResult(store, tweet, DetermineTweetCategory(tweet),
                                 Now(store), TRUE, TRUE, TRUE, TRUE)
     /\ UNCHANGED <<timeline, loops, scraper, batchRun, selection, ingest, ctxDone, envUserID, botID, answered>>
     /\ UNCHANGED cycleVars

RaceNext ==
  \/ \E id \in TweetIds : SaveTweetDuringCycle(timeline[id])
  \/ StartBatchesAllRead
  \/ HandleFindsNoTarget
  \/ HandleSelects
  \/ PostSucceeds
  \/ SaveAgentReplySucceeds
  \/ UpdateTweetAfterReplySucceeds
  \/ BatchDelay

RaceSpec == LiveInit /\ [][RaceNext]_vars

\* the rows of a conversation as a recall at this moment would hand them to
\* handleSingleReply
StoredThread(s, conv) ==
  [conversationId |-> conv,
   tweets |-> [i \in {j \in Ids(s) : s[j].conv = conv} |-> Snapshot(s[i])]]

\* C38: when ingestion runs beside a dispatch cycle, the tweet the dispatcher
\* replies to is, at the moment of posting, the newest eligible tweet of its
\* conversation in the store: a tweet ingested after the recall does not make
\* the dispatcher answer a stale target.
C38_TargetIsNewestAtPosting ==
  [][(pc = "post" /\ pc' = "save" /\ Head(threads).conversationId # NoId) =>
       cur.target \in Targets(StoredThread(store, Head(threads).conversationId),
                              envUserID)]_vars

\* --------------------------------------------------- Scraper.ProcessTasks
TaskStatusComplete == "complete"
TaskStatusFailed == "failed"

\* ProcessTasks has set the status, started the reporter, the result
\* processor and at least one worker, and queued every task of the
\* configuration on taskCh
ScraperInit ==
  /\ AtRest
  /\ loops = NoLoops
  /\ batchRun = NoBatchRun
  /\ selection = NoSelection
  /\ scraper \in {[totalTasks |-> n, maxRetries |-> r,
                   completedTasks |-> 0, failedTasks |-> 0, retryingTasks |-> 0,
                   retryCount |-> [id \in 1..n |-> 0],
                   taskCh |-> 1..n, timers |-> {}, resultCh |-> <<>>,
                   returned |-> FALSE] :
                    n \in 1..MaxTasks, r \in 0..MaxTaskRetries}

\* a worker receives a task, searches, and sends the task with its new
\* status on resultCh
Work(id) ==
  /\ id \in scraper.taskCh
  /\ \E status \in {TaskStatusComplete, TaskStatusFailed} :
       scraper' = [scraper EXCEPT
                     !.taskCh = @ \ {id},
                     !.resultCh = Append(@, [id |-> id, status |-> status])]
  /\ UNCHANGED <<loops, batchRun, selection, dispatchVars>>

\* the status after the result processor has handled one result
AfterResult(sc, task) ==
  IF task.status = TaskStatusComplete
  THEN [sc EXCEPT !.completedTasks = @ + 1,
                  !.retryingTasks = Max({0, @ - 1})]
  ELSE IF sc.retryCount[task.id] < sc.maxRetries
  THEN [sc EXCEPT !.retryCount[task.id] = @ + 1,
                  !.retryingTasks = @ + 1,
                  !.timers = @ \cup {task.id}]
  ELSE [sc EXCEPT !.failedTasks = @ + 1,
                  !.retryingTasks = Max({0, @ - 1})]

\* the result processor, one iteration of `for task := range resultCh`; when
\* every task is completed or failed it returns, done is closed and
\* ProcessTasks returns
ProcessResult ==
  /\ ~scraper.returned
  /\ scraper.resultCh # <<>>
  /\ LET sc == AfterResult([scraper EXCEPT !.resultCh = Tail(@)], Head(scraper.resultCh))
     IN scraper' =
          [sc EXCEPT !.returned =
                       (sc.completedTasks + sc.failedTasks = sc.totalTasks)]
  /\ UNCHANGED <<loops, batchRun, selection, dispatchVars>>

\* time.AfterFunc(backoff, ...) fires: the task is sent on taskCh again
RetryFires(id) ==
  /\ id \in scraper.timers
  /\ scraper' = [scraper EXCEPT !.timers = @ \ {id}, !.taskCh = @ \cup {id}]
  /\ UNCHANGED <<loops, batchRun, selection, dispatchVars>>

ScraperNext ==
  \/ \E id \in 1..MaxTasks : Work(id)
  \/ ProcessResult
  \/ \E id \in 1..MaxTasks : RetryFires(id)

ScraperSpec == ScraperInit /\ [][ScraperNext]_vars

\* C40: when ProcessTasks returns, every task is accounted for exactly once:
\* CompletedTasks + FailedTasks = TotalTasks and RetryingTasks = 0.
C40_EveryTaskAccountedOnce ==
  (scraper # NoScraper /\ scraper.returned) =>
    /\ scraper.completedTasks + scraper.failedTasks = scraper.totalTasks
    /\ scraper.retryingTasks = 0
====
